---------------------------- MODULE Spec2Model ----------------------------
(***************************************************************************)
(* jrpc2go: the JSON-RPC 2.0 dispatcher (Manager.Handle, execMethod), the  *)
(* request decoder (parseMethodRequest), the message model and the error   *)
(* catalogue, as a state machine.                                          *)
(*                                                                         *)
(* Go pointers and interface values that may be nil are modelled as        *)
(* sequences of length 0 or 1: NIL is the nil pointer, Some(x) a pointer   *)
(* to x.  On the wire, NIL for "result"/"error" means the member is        *)
(* omitted (omitempty); the "id" member is always written, as the text     *)
(* "null" when the Go pointer is nil.                                      *)
(*                                                                         *)
(* A handler (Method.Execute) is external code.  It receives the *Response *)
(* that execMethod and Handle keep using, and runs in its own goroutine;   *)
(* it is modelled as a process that stores a result and/or an error into   *)
(* that Response, in any order and any number of times, and then returns  *)
(* - or never returns.  Its stores are not synchronised with              *)
(* the reads of Handle, so every interleaving of them is a behaviour.      *)
(***************************************************************************)
EXTENDS Integers, Sequences, FiniteSets, TLC

\* ------------------------------------------------------------------ bounds
MaxBatch == 2

\* --------------------------------------------------------- nil-able values
NIL == <<>>
Some(x) == <<x>>

\* ---------------------------------------------------------- error catalogue
errCodeParseError == -32700
errCodeInvalidRequest == -32600
errCodeMethodNotFound == -32601
errCodeInvalidParams == -32602
ErrCodeInternal == -32603
errCodeInvalidRPCVersion == -32001
errCodeExecutionTimeout == -32002

ErrorMessage(code) ==
    CASE code = errCodeParseError -> "Parse error"
      [] code = errCodeInvalidRequest -> "Invalid Request"
      [] code = errCodeMethodNotFound -> "Method not found"
      [] code = errCodeInvalidParams -> "Invalid method parameter(s)"
      [] code = ErrCodeInternal -> "Internal error"
      [] code = errCodeInvalidRPCVersion -> "JSON RPC Version must be 2.0"
      [] code = errCodeExecutionTimeout -> "Method execution timeout"
      [] OTHER -> ""

\* newError(code, data): data is NIL or Some(text).
newError(code, data) ==
    [Code |-> code, Message |-> ErrorMessage(code), Data |-> data]

\* The error of the test handler addMethod.Execute (r == 1).
HandlerCode == 1
HandlerError ==
    [Code |-> HandlerCode, Message |-> "Fake error for test", Data |-> NIL]

\* What json.Encoder.Encode returns when the sink's Write fails.
WriteError ==
    [Code |-> 0, Message |-> "write failed", Data |-> NIL]

\* ------------------------------------------------------------ message model
version == "2.0"

Versions == {"2.0", "1.0"}
RequestMethods == {"", "add", "no-method"}
IdTexts == {"1"}
\* the "id" member of a request on the wire: missing, the literal null, or a value
WireIds == {"absent", "null"} \cup IdTexts

\* One JSON value in request position: the literal null or an object.
WireNull ==
    [lit |-> "null", jsonrpc |-> "", method |-> "", id |-> "absent"]
WireObjects ==
    [lit : {"object"}, jsonrpc : Versions, method : RequestMethods, id : WireIds]
WireElems == {WireNull} \cup WireObjects

\* encoding/json into the struct Request: a *json.RawMessage field is left
\* nil when the member is missing, and set to nil when it is the literal null.
DecodeID(wid) ==
    IF wid \in {"absent", "null"} THEN NIL ELSE Some(wid)

\* encoding/json into a *Request: null gives the nil pointer.
DecodeElem(e) ==
    IF e.lit = "null" THEN NIL
    ELSE Some([Version |-> e.jsonrpc, Method |-> e.method, ID |-> DecodeID(e.id)])

newResponseNoID(r) ==
    [Version |-> r.Version, ID |-> NIL, Result |-> NIL, Error |-> NIL]

newResponse(r) ==
    [Version |-> r.Version, ID |-> r.ID, Result |-> NIL, Error |-> NIL]

\* encoding/json of a Response: "jsonrpc" and "id" always, "id" as null for
\* the nil pointer; "result" and "error" only when not nil.
MarshalID(id) ==
    IF id = NIL THEN "null" ELSE id[1]

MarshalResponse(r) ==
    [jsonrpc |-> r.Version, id |-> MarshalID(r.ID),
     result |-> r.Result, error |-> r.Error]

\* ------------------------------------------------------------------ streams
\* The bytes behind the io.Reader, by what the decoder can tell apart:
\*   kind "empty"      no byte at all (ws: only white space)
\*        "unreadable" the first Read fails
\*        "garbage"    malformed JSON that does not start with '['
\*        "badarray"   malformed JSON that starts with '['
\*        "single"     one JSON value, elems[1]
\*        "array"      a JSON array of the values elems
\*   ws: white space precedes the first significant character.
SeqsUpTo(S, n) ==
    UNION {[1..m -> S] : m \in 0..n}

Streams ==
    [kind : {"empty", "garbage", "badarray"}, ws : BOOLEAN, elems : {<<>>}]
    \cup [kind : {"unreadable"}, ws : {FALSE}, elems : {<<>>}]
    \cup [kind : {"single"}, ws : BOOLEAN, elems : [1..1 -> WireElems]]
    \cup [kind : {"array"}, ws : BOOLEAN, elems : SeqsUpTo(WireElems, MaxBatch)]

\* br.ReadRune(): the first character of the stream, or an error.
ReadRuneFails(s) ==
    s.kind = "unreadable" \/ (s.kind = "empty" /\ ~s.ws)

FirstRune(s) ==
    IF s.ws THEN " "
    ELSE CASE s.kind \in {"array", "badarray"} -> "["
           [] s.kind = "single" /\ s.elems[1].lit = "object" -> "{"
           [] s.kind = "single" -> "n"
           [] OTHER -> "x"

DecodeErrorText == "json: decode error"

\* json.NewDecoder(br).Decode(&req), req a *Request.
DecodeSingle(s) ==
    IF s.kind = "single"
    THEN [err |-> NIL, rs |-> <<DecodeElem(s.elems[1])>>]
    ELSE [err |-> Some(newError(errCodeInvalidRequest, Some(DecodeErrorText))),
          rs |-> <<>>]

\* json.NewDecoder(br).Decode(&rs), rs a []*Request.
DecodeBatch(s) ==
    IF s.kind = "array"
    THEN [err |-> NIL, rs |-> [j \in 1..Len(s.elems) |-> DecodeElem(s.elems[j])]]
    ELSE IF s.kind = "single" /\ s.elems[1].lit = "null"
    THEN [err |-> NIL, rs |-> <<>>]
    ELSE [err |-> Some(newError(errCodeInvalidRequest, Some(DecodeErrorText))),
          rs |-> <<>>]

parseMethodRequest(s) ==
    IF ReadRuneFails(s)
    THEN [err |-> Some(newError(errCodeParseError,
                                Some("fail to read the request text"))),
          rs |-> <<>>]
    ELSE IF FirstRune(s) # "[" THEN DecodeSingle(s) ELSE DecodeBatch(s)

\* ----------------------------------------------------------------- registry
\* NewManagerBuilder().SetTimeout(1s).Add("add", h).Add("sum", h).Build()
\* The registry maps a method name to its handler.
TestTimeout == 1
TestMethods == [n \in {"add", "sum"} |-> "addMethod"]

\* m.methods[req.Method]: ok is the second value of the map read.
Lookup(reg, name) ==
    name \in DOMAIN reg

\* ------------------------------------------------------------------- state
VARIABLES
    mb,         \* the ManagerBuilder: [timeout]; its methods field refers to
                \* the same map as Manager.methods (Build copies the reference)
    built,      \* NIL, or Some of what Build put into the Manager (history)
    lastAdd,    \* NIL, or Some of the last call of Add and the map before it
    pp,         \* the last call of Request.ParseParams and its target
    methods,    \* the map made by NewManagerBuilder: mb.methods, Manager.methods
    timeout,    \* Manager.timeout
    pc,         \* where Handle is: idle exec select filter encode done panic
    input,      \* the arguments r and w of the Handle call
    ctx,        \* the context Handle works with (after line 95)
    cancelled,  \* the caller's context is done
    rq,         \* the decoded requests, each NIL or Some(Request)
    i,          \* the loop index of Handle (1-based)
    res,        \* the Response of each call dispatched so far (shared with
                \* the handler's goroutine of that call)
    hs,         \* the handler goroutine of each call: [st, setResult], where
                \* setResult records that it stored a Result (history)
    timer,      \* the deadline of the call in execMethod: idle armed fired
    outcome,    \* how execMethod ended for each call (history)
    resp,       \* the retained responses, as indices into res
    out,        \* what was written to the sink: [shape, items]
    ret         \* what Handle returned: NIL or Some(error)

vars ==
    <<mb, built, lastAdd, pp, methods, timeout, pc, input, ctx, cancelled, rq, i, res, hs, timer,
      outcome, resp, out, ret>>

NoOutput == [shape |-> "none", items |-> <<>>]

Contexts == {"nil", "background", "cancellable"}
Readers == {NIL} \cup {Some(s) : s \in Streams}
Writers == {"nil", "writer"}

\* No call of ParseParams yet.
NoParse ==
    [called |-> FALSE,
     params |-> [kind |-> "absent", V1 |-> NIL, V2 |-> NIL],
     v |-> [kind |-> "nil", val |-> NIL],
     target |-> NIL,
     err |-> NIL]

\* The state the tests build: SetTimeout(1s), Add("add"), Add("sum"), Build().
Init ==
    /\ mb = [timeout |-> TestTimeout]
    /\ built = Some([methods |-> TestMethods, timeout |-> TestTimeout])
    /\ lastAdd = Some([name |-> "sum", h |-> Some("addMethod"), panicked |-> FALSE,
                       before |-> [n \in {"add"} |-> "addMethod"]])
    /\ pp = NoParse
    /\ methods = TestMethods
    /\ timeout = TestTimeout
    /\ pc = "idle"
    /\ input = [r |-> NIL, w |-> "nil"]
    /\ ctx = "background"
    /\ cancelled = FALSE
    /\ rq = <<>>
    /\ i = 0
    /\ res = <<>>
    /\ hs = <<>>
    /\ timer = "idle"
    /\ outcome = <<>>
    /\ resp = <<>>
    /\ out = NoOutput
    /\ ret = NIL

\* ------------------------------------------------------------------ Handle
HandlePrologueNoEmptyCheck(r, w) ==
    IF r = NIL
    THEN [err |-> Some(newError(ErrCodeInternal, Some("r io.Reader can't be nil"))),
          rs |-> <<>>]
    ELSE IF w = "nil"
    THEN [err |-> Some(newError(ErrCodeInternal, Some("w io.Writer can't be nil"))),
          rs |-> <<>>]
    ELSE parseMethodRequest(r[1])

\* Handle up to the loop: the nil checks, the decoder, the empty batch.
HandlePrologue(r, w) ==
    IF r = NIL
    THEN [err |-> Some(newError(ErrCodeInternal, Some("r io.Reader can't be nil"))),
          rs |-> <<>>]
    ELSE IF w = "nil"
    THEN [err |-> Some(newError(ErrCodeInternal, Some("w io.Writer can't be nil"))),
          rs |-> <<>>]
    ELSE LET p == parseMethodRequest(r[1]) IN
         IF p.err # NIL THEN p
         ELSE IF Len(p.rs) = 0
         THEN [err |-> Some(newError(errCodeInvalidRequest,
                                     Some("no methods specified"))),
               rs |-> <<>>]
         ELSE p

\* if ctx == nil { ctx = context.Background() }
WithBackground(c) ==
    IF c = "nil" THEN "background" ELSE c

\* Handle is called and fails before the loop.
HandleReject ==
    /\ pc = "idle"
    /\ \E r \in Readers, w \in Writers :
        /\ HandlePrologue(r, w).err # NIL
        /\ input' = [r |-> r, w |-> w]
        /\ ret' = HandlePrologue(r, w).err
    /\ pc' = "done"
    /\ UNCHANGED <<mb, built, lastAdd, pp, methods, timeout, ctx, cancelled, rq, i, res, hs, timer,
                   outcome, resp, out>>

\* Handle is called and enters the loop over the decoded requests.
HandleStartFrom(C, R) ==
    /\ pc = "idle"
    /\ built # NIL
    /\ \E c \in C, r \in R, w \in Writers :
        /\ HandlePrologue(r, w).err = NIL
        /\ input' = [r |-> r, w |-> w]
        /\ ctx' = WithBackground(c)
        /\ rq' = HandlePrologue(r, w).rs
    /\ i' = 1
    /\ pc' = IF Len(rq') = 0 THEN "encode" ELSE "exec"
    /\ UNCHANGED <<mb, built, lastAdd, pp, methods, timeout, cancelled, res, hs, timer, outcome,
                   resp, out, ret>>

HandleStartWith(C) ==
    HandleStartFrom(C, Readers)

\* The caller passes no context or one that is never done.
HandleStart ==
    HandleStartWith({"nil", "background"})

\* The caller passes a context that it can cancel.
HandleStartCancellable ==
    HandleStartWith({"cancellable"})

\* The caller cancels the context it passed to Handle.
CancelContext ==
    /\ pc \notin {"idle", "done", "panic"}
    /\ ctx = "cancellable"
    /\ ~cancelled
    /\ cancelled' = TRUE
    /\ UNCHANGED <<mb, built, lastAdd, pp, methods, timeout, pc, input, ctx, rq, i, res, hs, timer,
                   outcome, resp, out, ret>>

\* -------------------------------------------------------------- execMethod
CallErrorNoLookup(req, reg) ==
    IF req.Version # version
    THEN Some(newError(errCodeInvalidRPCVersion, Some(req.Version)))
    ELSE IF req.Method = ""
    THEN Some(newError(errCodeMethodNotFound, Some("Method not specified or empty")))
    ELSE NIL

CallErrorMethodFirst(req, reg) ==
    IF req.Method = ""
    THEN Some(newError(errCodeMethodNotFound, Some("Method not specified or empty")))
    ELSE IF req.Version # version
    THEN Some(newError(errCodeInvalidRPCVersion, Some(req.Version)))
    ELSE IF ~Lookup(reg, req.Method)
    THEN Some(newError(errCodeMethodNotFound, Some(req.Method)))
    ELSE NIL

CallErrorNoEmptyCheck(req, reg) ==
    IF req.Version # version
    THEN Some(newError(errCodeInvalidRPCVersion, Some(req.Version)))
    ELSE IF ~Lookup(reg, req.Method)
    THEN Some(newError(errCodeMethodNotFound, Some(req.Method)))
    ELSE NIL

\* execMethod before the handler: the error that ends the call, or NIL.
\* The map is only read when the version and the method name passed.
CallError(req, reg) ==
    IF req.Version # version
    THEN Some(newError(errCodeInvalidRPCVersion, Some(newResponse(req).Version)))
    ELSE IF req.Method = ""
    THEN Some(newError(errCodeMethodNotFound, Some("Method not specified or empty")))
    ELSE IF ~Lookup(reg, req.Method)
    THEN Some(newError(errCodeMethodNotFound, Some(req.Method)))
    ELSE NIL

CallOutcome(req, reg) ==
    IF req.Version # version THEN "version"
    ELSE IF req.Method = "" THEN "nomethod"
    ELSE IF ~Lookup(reg, req.Method) THEN "notfound"
    ELSE "started"

\* newResponse(req) dereferences req: a nil *Request panics.
ExecNilRequest ==
    /\ pc = "exec"
    /\ rq[i] = NIL
    /\ pc' = "panic"
    /\ UNCHANGED <<mb, built, lastAdd, pp, methods, timeout, input, ctx, cancelled, rq, i, res, hs, timer,
                   outcome, resp, out, ret>>

\* execMethod returns a protocol error without starting a handler.
ExecReject ==
    /\ pc = "exec"
    /\ rq[i] # NIL
    /\ CallError(rq[i][1], methods) # NIL
    /\ res' = Append(res, [newResponse(rq[i][1]) EXCEPT
                              !.Error = CallError(rq[i][1], methods)])
    /\ hs' = Append(hs, [st |-> "none", setResult |-> FALSE])
    /\ outcome' = Append(outcome, CallOutcome(rq[i][1], methods))
    /\ pc' = "filter"
    /\ UNCHANGED <<mb, built, lastAdd, pp, methods, timeout, input, ctx, cancelled, rq, i, timer, resp,
                   out, ret>>

\* execMethod starts the handler in a goroutine and the deadline with it.
ExecStart ==
    /\ pc = "exec"
    /\ rq[i] # NIL
    /\ CallError(rq[i][1], methods) = NIL
    /\ res' = Append(res, newResponse(rq[i][1]))
    /\ hs' = Append(hs, [st |-> "running", setResult |-> FALSE])
    /\ outcome' = Append(outcome, "pending")
    /\ timer' = "armed"
    /\ pc' = "select"
    /\ UNCHANGED <<mb, built, lastAdd, pp, methods, timeout, input, ctx, cancelled, rq, i, resp, out, ret>>

\* The configured timeout of the call elapses.
DeadlineFires ==
    /\ pc = "select"
    /\ timer = "armed"
    /\ timer' = "fired"
    /\ UNCHANGED <<mb, built, lastAdd, pp, methods, timeout, pc, input, ctx, cancelled, rq, i, res, hs,
                   outcome, resp, out, ret>>

CtxTDoneNoDeadline ==
    cancelled

\* ctxT.Done(): the deadline passed or the parent context is done.
CtxTDone ==
    timer = "fired" \/ cancelled

OnTimeoutNoError(r) ==
    r

\* The Response after the select took the branch <-ctxT.Done().
OnTimeout(r) ==
    [r EXCEPT !.Error = Some(newError(errCodeExecutionTimeout, NIL))]

OnFinishKeepResult(r) ==
    r

\* The Response after the select took the branch <-finish.
OnFinish(r) ==
    IF r.Error # NIL THEN [r EXCEPT !.Result = NIL] ELSE r

SelectTimeout ==
    /\ pc = "select"
    /\ CtxTDone
    /\ res' = [res EXCEPT ![i] = OnTimeout(res[i])]
    /\ outcome' = [outcome EXCEPT ![i] = "timeout"]
    /\ timer' = "idle"
    /\ pc' = "filter"
    /\ UNCHANGED <<mb, built, lastAdd, pp, methods, timeout, input, ctx, cancelled, rq, i, hs, resp, out, ret>>

SelectFinish ==
    /\ pc = "select"
    /\ hs[i].st = "returned"
    /\ res' = [res EXCEPT ![i] = OnFinish(res[i])]
    /\ outcome' = [outcome EXCEPT ![i] = "finished"]
    /\ timer' = "idle"
    /\ pc' = "filter"
    /\ UNCHANGED <<mb, built, lastAdd, pp, methods, timeout, input, ctx, cancelled, rq, i, hs, resp, out, ret>>

\* ----------------------------------------------------------------- handler
\* Method.Execute(req, resp) in its goroutine: it stores into resp ...
HandlerSetResult(k) ==
    /\ hs[k].st = "running"
    /\ res' = [res EXCEPT ![k].Result = Some("value")]
    /\ hs' = [hs EXCEPT ![k].setResult = TRUE]
    /\ UNCHANGED <<mb, built, lastAdd, pp, methods, timeout, pc, input, ctx, cancelled, rq, i, timer,
                   outcome, resp, out, ret>>

HandlerSetError(k) ==
    /\ hs[k].st = "running"
    /\ res' = [res EXCEPT ![k].Error = Some(HandlerError)]
    /\ UNCHANGED hs
    /\ UNCHANGED <<mb, built, lastAdd, pp, methods, timeout, pc, input, ctx, cancelled, rq, i, timer,
                   outcome, resp, out, ret>>

\* ... and returns: close(finish).
HandlerReturn(k) ==
    /\ hs[k].st = "running"
    /\ hs' = [hs EXCEPT ![k].st = "returned"]
    /\ UNCHANGED <<mb, built, lastAdd, pp, methods, timeout, pc, input, ctx, cancelled, rq, i, res, timer,
                   outcome, resp, out, ret>>

\* ------------------------------------------------- Handle: filter and encode
RetainIdOnly(req, r) ==
    req.ID # NIL

\* The condition of line 108.
Retain(req, r) ==
    req.ID # NIL \/ r.Error # NIL

Filter ==
    /\ pc = "filter"
    /\ resp' = IF Retain(rq[i][1], res[i]) THEN Append(resp, i) ELSE resp
    /\ IF i < Len(rq)
       THEN i' = i + 1 /\ pc' = "exec"
       ELSE i' = i /\ pc' = "encode"
    /\ UNCHANGED <<mb, built, lastAdd, pp, methods, timeout, input, ctx, cancelled, rq, res, hs, timer,
                   outcome, out, ret>>

EncodeShapeAlwaysArray(n) ==
    IF n > 0 THEN "array" ELSE "none"

EncodeShapeFirstOnly(n) ==
    IF n > 0 THEN "object" ELSE "none"

\* The JSON value Handle encodes for n retained responses.
EncodeShape(n) ==
    IF n > 1 THEN "array" ELSE IF n = 1 THEN "object" ELSE "none"

Encoded(rs, heap) ==
    [shape |-> EncodeShape(Len(rs)),
     items |-> [j \in 1..Len(rs) |-> MarshalResponse(heap[rs[j]])]]

\* No response: nothing is sent.
EncodeNothing ==
    /\ pc = "encode"
    /\ EncodeShape(Len(resp)) = "none"
    /\ ret' = NIL
    /\ pc' = "done"
    /\ UNCHANGED <<mb, built, lastAdd, pp, methods, timeout, input, ctx, cancelled, rq, i, res, hs, timer,
                   outcome, resp, out>>

\* json.NewEncoder(w).Encode(...) and the sink takes the bytes.
EncodeWrite ==
    /\ pc = "encode"
    /\ EncodeShape(Len(resp)) # "none"
    /\ out' = Encoded(resp, res)
    /\ ret' = NIL
    /\ pc' = "done"
    /\ UNCHANGED <<mb, built, lastAdd, pp, methods, timeout, input, ctx, cancelled, rq, i, res, hs, timer,
                   outcome, resp>>

\* json.NewEncoder(w).Encode(...) and the sink's Write fails.
EncodeWriteFails ==
    /\ pc = "encode"
    /\ EncodeShape(Len(resp)) # "none"
    /\ ret' = Some(WriteError)
    /\ pc' = "done"
    /\ UNCHANGED <<mb, built, lastAdd, pp, methods, timeout, input, ctx, cancelled, rq, i, res, hs, timer,
                   outcome, resp, out>>

\* ----------------------------------------------------------- specification
Next ==
    \/ HandleReject
    \/ HandleStart
    \/ ExecNilRequest
    \/ ExecReject
    \/ ExecStart
    \/ DeadlineFires
    \/ SelectTimeout
    \/ SelectFinish
    \/ \E k \in 1..Len(hs) : HandlerSetResult(k)
    \/ \E k \in 1..Len(hs) : HandlerSetError(k)
    \/ \E k \in 1..Len(hs) : HandlerReturn(k)
    \/ Filter
    \/ EncodeNothing
    \/ EncodeWrite
    \/ EncodeWriteFails

Spec == Init /\ [][Next]_vars

\* The same program with a caller that may cancel the context it passed.
NextCancel ==
    \/ Next
    \/ HandleStartCancellable
    \/ CancelContext

SpecCancel == Init /\ [][NextCancel]_vars

\* ---------------------------------------------------------- ManagerBuilder
\* NewManagerBuilder(): timeout 10 seconds, an empty map.
DefaultTimeout == 10
EmptyMethods == [n \in {} |-> "addMethod"]

AddNames == {"", "add"}
\* a Method value: NIL is the nil interface
AddHandlers == {NIL, Some("addMethod"), Some("otherMethod")}
TimeoutValues == {TestTimeout, DefaultTimeout}

AddPanicsOnBoth(name, h) ==
    name = "" /\ h = NIL

\* The condition of the panic in Add.
AddPanics(name, h) ==
    name = "" \/ h = NIL

\* mb.methods[name] = h
MapSet(m, name, h) ==
    [n \in DOMAIN m \cup {name} |-> IF n = name THEN h ELSE m[n]]

\* The state right after NewManagerBuilder(); no Manager exists yet.
InitBuilder ==
    /\ mb = [timeout |-> DefaultTimeout]
    /\ built = NIL
    /\ lastAdd = NIL
    /\ pp = NoParse
    /\ methods = EmptyMethods
    /\ timeout = 0
    /\ pc = "idle"
    /\ input = [r |-> NIL, w |-> "nil"]
    /\ ctx = "background"
    /\ cancelled = FALSE
    /\ rq = <<>>
    /\ i = 0
    /\ res = <<>>
    /\ hs = <<>>
    /\ timer = "idle"
    /\ outcome = <<>>
    /\ resp = <<>>
    /\ out = NoOutput
    /\ ret = NIL

\* mb.SetTimeout(t)
SetTimeout(t) ==
    /\ mb' = [mb EXCEPT !.timeout = t]
    /\ UNCHANGED <<built, lastAdd, pp, methods, timeout, pc, input, ctx,
                   cancelled, rq, i, res, hs, timer, outcome, resp, out, ret>>

\* mb.Add(name, h) panics (the caller recovers, as the tests do).
AddPanic(name, h) ==
    /\ AddPanics(name, h)
    /\ lastAdd' = Some([name |-> name, h |-> h, panicked |-> TRUE,
                        before |-> methods])
    /\ UNCHANGED <<mb, built, pp, methods, timeout, pc, input, ctx,
                   cancelled, rq, i, res, hs, timer, outcome, resp, out, ret>>

\* mb.Add(name, h) stores h in the map, which a Manager that was built
\* from mb reads as well.
Add(name, h) ==
    /\ ~AddPanics(name, h)
    /\ h # NIL
    /\ methods' = MapSet(methods, name, h[1])
    /\ lastAdd' = Some([name |-> name, h |-> h, panicked |-> FALSE,
                        before |-> methods])
    /\ UNCHANGED <<mb, built, pp, timeout, pc, input, ctx,
                   cancelled, rq, i, res, hs, timer, outcome, resp, out, ret>>

\* mb.Build(): Manager{methods: mb.methods, timeout: mb.timeout}
Build ==
    /\ built = NIL
    /\ timeout' = mb.timeout
    /\ built' = Some([methods |-> methods, timeout |-> mb.timeout])
    /\ UNCHANGED <<mb, lastAdd, pp, methods, pc, input, ctx,
                   cancelled, rq, i, res, hs, timer, outcome, resp, out, ret>>

\* One request object, as the tests send it.
SingleReaders ==
    {Some(s) : s \in {t \in Streams : t.kind = "single" /\ ~t.ws
                                      /\ t.elems[1].lit = "object"}}

HandleStartSingle ==
    HandleStartFrom({"background"}, SingleReaders)

\* The builder, and a Manager built from it handling one request.
NextBuilder ==
    \/ \E t \in TimeoutValues : SetTimeout(t)
    \/ \E name \in AddNames, h \in AddHandlers : AddPanic(name, h)
    \/ \E name \in AddNames, h \in AddHandlers : Add(name, h)
    \/ Build
    \/ HandleStartSingle
    \/ ExecReject
    \/ ExecStart
    \/ DeadlineFires
    \/ SelectTimeout
    \/ SelectFinish
    \/ \E k \in 1..Len(hs) : HandlerSetResult(k)
    \/ \E k \in 1..Len(hs) : HandlerSetError(k)
    \/ \E k \in 1..Len(hs) : HandlerReturn(k)
    \/ Filter
    \/ EncodeNothing
    \/ EncodeWrite
    \/ EncodeWriteFails

SpecBuilder == InitBuilder /\ [][NextBuilder]_vars

\* ------------------------------------------------------ Request.ParseParams
\* TestValue{V1, V2 int}, the target type of the tests.
ParamValues == {0, 10}
TestValues == [V1 : ParamValues, V2 : ParamValues]

\* Request.Params: absent (a nil *json.RawMessage), malformed JSON, JSON of
\* another type (a string), or an object with some of the members V1, V2.
ParamFields == {NIL} \cup {Some(n) : n \in ParamValues}
WireParams ==
    [kind : {"absent", "syntax", "mismatch"}, V1 : {NIL}, V2 : {NIL}]
    \cup [kind : {"object"}, V1 : ParamFields, V2 : ParamFields]

\* The argument v interface{}: the nil interface, a nil *TestValue, a
\* *TestValue pointing to val, or a TestValue passed by value.
Targets ==
    [kind : {"nil", "nilptr"}, val : {NIL}]
    \cup [kind : {"ptr", "value"}, val : {Some(t) : t \in TestValues}]

\* Decoding an object into a struct sets the members that are present.
DecodeInto(p, t) ==
    [V1 |-> IF p.V1 # NIL THEN p.V1[1] ELSE t.V1,
     V2 |-> IF p.V2 # NIL THEN p.V2[1] ELSE t.V2]

\* json.Unmarshal(*r.Params, &v): the destination is the address of the
\* parameter v. The decoder follows a non-nil pointer held by the interface
\* and decodes into the struct; for anything else it stores the decoded
\* value in the parameter itself, which the caller never sees.
\* val is what the caller's target holds afterwards.
Unmarshal(p, t) ==
    IF p.kind = "syntax"
    THEN [err |-> Some("json: syntax error"), val |-> t.val]
    ELSE IF t.kind = "ptr"
    THEN IF p.kind = "mismatch"
         THEN [err |-> Some("json: cannot unmarshal"), val |-> t.val]
         ELSE [err |-> NIL, val |-> Some(DecodeInto(p, t.val[1]))]
    ELSE [err |-> NIL, val |-> t.val]

\* r.ParseParams(v): [err, val].
ParseParams(p, t) ==
    IF t.kind = "nil"
    THEN [err |-> Some(newError(errCodeInvalidParams,
                   Some("v can't be nil to parse request parameters"))),
          val |-> t.val]
    ELSE IF p.kind = "absent"
    THEN [err |-> Some(newError(errCodeInvalidParams,
                   Some("request doesn't have params"))),
          val |-> t.val]
    ELSE LET u == Unmarshal(p, t) IN
         IF u.err # NIL
         THEN [err |-> Some(newError(errCodeInvalidParams, u.err)), val |-> u.val]
         ELSE [err |-> NIL, val |-> u.val]

\* A handler (or a test) calls ParseParams on a request.
ParseParamsCall ==
    /\ \E p \in WireParams, t \in Targets :
        pp' = [called |-> TRUE, params |-> p, v |-> t,
               target |-> ParseParams(p, t).val,
               err |-> ParseParams(p, t).err]
    /\ UNCHANGED <<mb, built, lastAdd, methods, timeout, pc, input, ctx,
                   cancelled, rq, i, res, hs, timer, outcome, resp, out, ret>>

NextParams ==
    ParseParamsCall

SpecParams == Init /\ [][NextParams]_vars

\* ------------------------------------------------------------------ progress
\* The steps of Handle's own goroutine and of the runtime's timer. The
\* scheduler runs Handle whenever it can take a step and the deadline of
\* context.WithTimeout is finite; nothing makes a handler return.
HandleStep ==
    \/ ExecReject
    \/ ExecStart
    \/ DeadlineFires
    \/ SelectTimeout
    \/ SelectFinish
    \/ Filter
    \/ EncodeNothing
    \/ EncodeWrite
    \/ EncodeWriteFails

\* A batch of requests that decodes: an array at the first byte of the
\* stream, each element a request object (with or without an id: an id of
\* null decodes to the same Request as no id).
BatchReaders ==
    {Some(s) : s \in {t \in Streams :
        /\ t.kind = "array"
        /\ ~t.ws
        /\ Len(t.elems) >= 1
        /\ \A k \in 1..Len(t.elems) :
            t.elems[k].lit = "object" /\ t.elems[k].id # "null"}}

HandleStartBatch ==
    HandleStartFrom({"nil", "background"}, BatchReaders)

NextLive ==
    \/ HandleStartBatch
    \/ HandleStep
    \/ \E k \in 1..Len(hs) : HandlerSetResult(k)
    \/ \E k \in 1..Len(hs) : HandlerSetError(k)
    \/ \E k \in 1..Len(hs) : HandlerReturn(k)

SpecLive == Init /\ [][NextLive]_vars /\ WF_vars(HandleStep)

\* ------------------------------------------------------------------- claims
Returned == pc = "done"

\* Handle returned and the sink took whatever was encoded.
ReturnedOk == pc = "done" /\ ret = NIL

\* The calls that went through the filter of line 108.
Filtered ==
    {k \in 1..Len(res) : k < i \/ pc \in {"encode", "done"}}

Retained == {resp[j] : j \in 1..Len(resp)}

\* The request of call k as it was on the wire.
WireOf(k) == input.r[1].elems[k]

\* The call ended in an error: a protocol error, a timeout, or the handler
\* returned with an error stored.
Failed(k) ==
    \/ outcome[k] \in {"version", "nomethod", "notfound", "timeout"}
    \/ outcome[k] = "finished" /\ res[k].Error # NIL

\* The positions of the output that answer call k.
ItemsOf(k) ==
    {j \in 1..Len(out.items) : resp[j] = k}

\* C1 (as claimed): a call whose deadline fired before the handler signalled
\* completion is written to the sink without a result member, whatever the
\* handler stored and whenever it stored it.
C1_TimedOutCallHasNoResultOnWire ==
    \A j \in 1..Len(out.items) :
        outcome[resp[j]] = "timeout" => out.items[j].result = NIL

\* C2 (as claimed): every Response written to the sink carries exactly one of
\* result and error.
C2_ExactlyOneOfResultAndError ==
    \A j \in 1..Len(out.items) :
        (out.items[j].result # NIL) # (out.items[j].error # NIL)

C4_ShapeByRetainedCount ==
    ReturnedOk /\ Len(rq) > 0 =>
        /\ Len(resp) = 0 => out = NoOutput
        /\ Len(resp) = 1 => out.shape = "object" /\ Len(out.items) = 1
        /\ Len(resp) >= 2 => out.shape = "array" /\ Len(out.items) = Len(resp)
        /\ \A j \in 1..Len(out.items) :
            /\ out.items[j].jsonrpc = WireOf(resp[j]).jsonrpc
            /\ \A l \in 1..Len(out.items) : j < l => resp[j] < resp[l]

C4_Witness ==
    /\ ReturnedOk
    /\ Len(resp) = 2
    /\ out.shape = "array"
    /\ out.items[1].id = "1" /\ out.items[2].id = "null"
    /\ WireOf(1).id = "1" /\ WireOf(2).id = "null"
    /\ outcome[1] = "finished" /\ outcome[2] = "notfound"

\* C5 (as claimed): a decoded batch of two or more requests is answered with
\* a JSON array.
C5_BatchAnsweredWithArray ==
    ReturnedOk /\ Len(rq) >= 2 => out.shape = "array"

\* C5 (amended): for a decoded batch of two or more requests the output is a
\* JSON array, in request order, exactly when two or more responses are
\* retained; with one retained it is a single object, with none nothing.
C5_BatchArrayIffTwoRetained ==
    ReturnedOk /\ Len(rq) >= 2 =>
        /\ out.shape = "array" <=> Cardinality(Retained) >= 2
        /\ out.shape = "object" <=> Cardinality(Retained) = 1
        /\ out.shape = "none" <=> Retained = {}
        /\ out.shape = "array" =>
            \A j \in 1..Len(out.items), l \in 1..Len(out.items) :
                j < l => resp[j] < resp[l]

C5_Witness ==
    /\ ReturnedOk
    /\ Len(rq) >= 2
    /\ out.shape = "array"
    /\ outcome[1] = "finished" /\ outcome[2] = "finished"

\* C6: a request whose version is not "2.0" ends with InvalidRPCVersion
\* (-32001, data = that version) and no handler is started for it, also when
\* its method is empty or not registered.
C6_VersionMismatchEndsDispatch ==
    \A k \in 1..Len(res) :
        WireOf(k).jsonrpc # "2.0" =>
            /\ res[k].Error # NIL
            /\ res[k].Error[1].Code = -32001
            /\ res[k].Error[1].Data = Some(WireOf(k).jsonrpc)
            /\ res[k].Result = NIL
            /\ hs[k].st = "none"

C6_Witness ==
    \E k \in 1..Len(res) :
        /\ WireOf(k).jsonrpc = "1.0"
        /\ WireOf(k).method = ""
        /\ res[k].Error # NIL
        /\ res[k].Error[1].Code = -32001
        /\ pc = "done"

\* C7: with version "2.0", an empty method ends with MethodNotFound (-32601)
\* and data "Method not specified or empty", a method that is not registered
\* with MethodNotFound and data = the name; no handler is started.
C7_MethodNotFound ==
    \A k \in 1..Len(res) :
        WireOf(k).jsonrpc = "2.0" =>
            /\ WireOf(k).method = "" =>
                /\ res[k].Error # NIL
                /\ res[k].Error[1].Code = -32601
                /\ res[k].Error[1].Data = Some("Method not specified or empty")
                /\ hs[k].st = "none"
            /\ (WireOf(k).method # "" /\ WireOf(k).method \notin DOMAIN methods) =>
                /\ res[k].Error # NIL
                /\ res[k].Error[1].Code = -32601
                /\ res[k].Error[1].Data = Some(WireOf(k).method)
                /\ hs[k].st = "none"

C7_Witness ==
    /\ pc = "done"
    /\ Len(res) = 2
    /\ WireOf(1).jsonrpc = "2.0" /\ WireOf(1).method = ""
    /\ WireOf(2).jsonrpc = "2.0" /\ WireOf(2).method = "no-method"
    /\ res[2].Error # NIL /\ res[2].Error[1].Data = Some("no-method")

TransportFailure(in) ==
    \/ in.r = NIL
    \/ in.w = "nil"
    \/ in.r[1].kind \in {"empty", "unreadable", "garbage", "badarray"}
    \/ in.r[1].kind = "array" /\ in.r[1].elems = <<>>

\* C9: when Handle fails with a transport or decode failure it returns the
\* error, has written nothing and has started no handler.
C9_TransportFailureWritesNothing ==
    /\ (Returned /\ TransportFailure(input)) =>
        /\ ret # NIL
        /\ ret[1].Code \in {-32603, -32700, -32600}
    /\ (Returned /\ ret # NIL /\ ret # Some(WriteError)) =>
        /\ out = NoOutput
        /\ res = <<>>
        /\ \A k \in 1..Len(hs) : hs[k].st = "none"

C9_Witness ==
    /\ Returned
    /\ input.r # NIL
    /\ input.w = "writer"
    /\ input.r[1].kind = "array"
    /\ input.r[1].elems = <<>>
    /\ ret # NIL
    /\ ret[1].Code = -32600

\* C10: per-call errors never leave Handle as its error: once the input
\* decoded to requests and the sink takes the write, Handle returns nil, and
\* every failed call is an error object in what was written.
C10_CallErrorsStayOnWire ==
    (Returned /\ Len(rq) >= 1 /\ ret # Some(WriteError)) =>
        /\ ret = NIL
        /\ \A k \in 1..Len(res) :
            Failed(k) => \E j \in ItemsOf(k) : out.items[j].error # NIL

C10_Witness ==
    /\ ReturnedOk
    /\ Len(res) = 2
    /\ outcome[1] = "timeout"
    /\ outcome[2] = "finished" /\ res[2].Error = Some(HandlerError)
    /\ out.shape = "array"
    /\ out.items[1].error # NIL /\ out.items[2].error # NIL

\* C11 (as claimed): input failures are classified by code: an empty or
\* unreadable stream gives ParseError; malformed JSON, single or batch, gives
\* InvalidRequest with the decode error as data; a well-formed empty array
\* gives InvalidRequest with the data "no methods specified".
C11_InputFailuresClassified ==
    (Returned /\ input.r # NIL /\ input.w = "writer") =>
        LET s == input.r[1] IN
        /\ (s.kind = "unreadable" \/ (s.kind = "empty" /\ ~s.ws)) =>
            /\ ret # NIL
            /\ ret[1].Code = errCodeParseError
        /\ s.kind \in {"garbage", "badarray"} =>
            ret = Some(newError(errCodeInvalidRequest, Some(DecodeErrorText)))
        /\ (s.kind = "array" /\ s.elems = <<>>) =>
            ret = Some(newError(errCodeInvalidRequest,
                                Some("no methods specified")))

\* C12 (as claimed): once Build has returned a Manager, its mapping and its
\* timeout are what Build put there, whatever is called afterwards.
C12_ManagerFrozenAfterBuild ==
    built # NIL =>
        /\ methods = built[1].methods
        /\ timeout = built[1].timeout

\* C13: Add panics exactly when the name is empty or the handler is nil, and
\* then leaves the mapping as it was; otherwise the name maps to the handler
\* afterwards (and the other names are as before).
C13_AddPanicsOrRegisters ==
    lastAdd # NIL =>
        LET a == lastAdd[1] IN
        /\ a.panicked <=> (a.name = "" \/ a.h = NIL)
        /\ a.panicked => methods = a.before
        /\ ~a.panicked =>
            /\ a.name \in DOMAIN methods
            /\ methods[a.name] = a.h[1]
            /\ \A n \in DOMAIN a.before \ {a.name} :
                n \in DOMAIN methods /\ methods[n] = a.before[n]

C13_Witness ==
    /\ lastAdd # NIL
    /\ lastAdd[1].panicked
    /\ lastAdd[1].name = "add"
    /\ lastAdd[1].h = NIL
    /\ "add" \in DOMAIN methods
    /\ methods = lastAdd[1].before

\* Every element of the decoded batch is a request (not a JSON null).
AllRequests ==
    \A k \in 1..Len(rq) : rq[k] # NIL

Terminal == {"version", "nomethod", "notfound", "finished", "timeout"}

\* C14: a Handle call on a decoded batch of N requests eventually returns,
\* also when handlers never return, and when it has returned each of the N
\* requests has reached a terminal state: a protocol error, the handler's
\* completion, or the timeout.
C14_HandleReturnsAfterAllTerminal ==
    /\ [](Returned /\ Len(rq) >= 1 =>
            /\ Len(outcome) = Len(rq)
            /\ \A k \in 1..Len(rq) : outcome[k] \in Terminal)
    /\ (pc \in {"exec", "select", "filter", "encode"} /\ AllRequests) ~> Returned

C14_Witness ==
    /\ Returned
    /\ Len(rq) = 2
    /\ \A k \in 1..2 : outcome[k] = "timeout" /\ hs[k].st = "running"

\* C15 (as claimed): ParseParams returns InvalidParams when the target is
\* nil, when the request has no params, or when the params cannot be decoded
\* into the target; otherwise it returns no error and the target holds the
\* decoded values.
C15_ParseParamsErrorOrDecoded ==
    pp.called =>
        LET bad == \/ pp.v.kind \in {"nil", "nilptr"}
                   \/ pp.params.kind = "absent"
                   \/ pp.params.kind \in {"syntax", "mismatch"}
                   \/ pp.v.kind = "value"
        IN  /\ bad =>
                /\ pp.err # NIL
                /\ pp.err[1].Code = errCodeInvalidParams
            /\ ~bad =>
                /\ pp.err = NIL
                /\ pp.target = Some(DecodeInto(pp.params, pp.v.val[1]))

\* C16 (as claimed): a call whose deadline fired before the handler
\* signalled completion is written with the ExecutionTimeout error, whatever
\* the handler stores afterwards, also as an early element of a batch.
C16_TimedOutCallCarriesTimeoutError ==
    \A j \in 1..Len(out.items) :
        outcome[resp[j]] = "timeout" =>
            /\ out.items[j].error # NIL
            /\ out.items[j].error[1].Code = errCodeExecutionTimeout

\* C17: when the handler's completion wins the race and the handler has set
\* an error, the Response that execMethod returns has no result, whatever
\* result the handler also stored and in whichever order.
C17_FinishedWithErrorHasNoResult ==
    \A k \in 1..Len(res) :
        (outcome[k] = "finished" /\ res[k].Error # NIL) =>
            /\ res[k].Result = NIL
            /\ \A j \in ItemsOf(k) : out.items[j].result = NIL

C17_Witness ==
    /\ pc = "filter"
    /\ outcome[i] = "finished"
    /\ hs[i].setResult
    /\ res[i].Error = Some(HandlerError)
    /\ res[i].Result = NIL

\* C18: the requests are dispatched in order and one at a time: while call k
\* is being dispatched every earlier call is terminal and no later call
\* exists; a handler is started only for a request that passed the version
\* check and the lookup, and at most one handler per request.
C18_SequentialDispatch ==
    /\ Len(hs) = Len(res) /\ Len(outcome) = Len(res) /\ Len(res) <= Len(rq)
    /\ pc \in {"exec", "select", "filter"} =>
        Len(res) = IF pc = "exec" THEN i - 1 ELSE i
    /\ \A k \in 1..Len(res) :
        /\ outcome[k] = "pending" <=> (k = i /\ pc = "select")
        /\ hs[k].st = "none" <=> outcome[k] \in {"version", "nomethod", "notfound"}
        /\ hs[k].st # "none" =>
            /\ rq[k][1].Version = version
            /\ Lookup(methods, rq[k][1].Method)
        /\ res[k].ID = rq[k][1].ID

C18_Witness ==
    /\ pc = "select"
    /\ i = 2
    /\ outcome[1] = "timeout"
    /\ hs[1].st = "running"
    /\ hs[2].st = "running"

\* C19 (as claimed): the framing follows the first significant character, so
\* a well-formed batch preceded by white space is decoded as a batch: Handle
\* does not reject it with a decode error.
C19_BatchAfterWhiteSpaceDecodes ==
    (Returned /\ input.r # NIL /\ input.w = "writer"
        /\ input.r[1].kind = "array" /\ input.r[1].ws
        /\ Len(input.r[1].elems) >= 1) =>
        /\ ret # Some(newError(errCodeInvalidRequest, Some(DecodeErrorText)))
        /\ Len(rq) = Len(input.r[1].elems)

\* C20 (as claimed): a request whose id is present with the value null is an
\* identified call: when its handler succeeds, a response with id null and
\* the result is written.
C20_NullIdIsAnswered ==
    ReturnedOk =>
        \A k \in 1..Len(res) :
            (WireOf(k).id = "null" /\ outcome[k] = "finished"
                /\ res[k].Error = NIL /\ res[k].Result # NIL) =>
                \E j \in ItemsOf(k) :
                    /\ out.items[j].id = "null"
                    /\ out.items[j].result # NIL

\* C21 (as claimed): once execMethod has handed the Response of a call back
\* to the loop of Handle (the call is terminal), no step writes that Response
\* any more, neither while Handle filters and encodes nor after it returned.
C21_HandedBackResponseIsStable ==
    [][\A k \in 1..Len(res) :
        outcome[k] \in Terminal => res'[k] = res[k]]_vars

\* C22 (as claimed): a Response gets the ExecutionTimeout error only when the
\* Manager's own timeout of that call elapsed; the caller's context being
\* done is not enough.
C22_TimeoutErrorOnlyAfterDeadline ==
    [][\A k \in 1..Len(res') :
        (/\ res'[k].Error = Some(newError(errCodeExecutionTimeout, NIL))
         /\ (k > Len(res) \/ res[k].Error # res'[k].Error)) =>
            timer = "fired"]_vars

\* C23 (as claimed): every element of a decoded sequence is a Request, and no
\* input makes the dispatch of a call abort with a panic.
C23_DecodedElementsAreRequests ==
    /\ \A k \in 1..Len(rq) : rq[k] # NIL
    /\ pc # "panic"

==========================================================================
